---- MODULE Spec2Model ----
(***************************************************************************)
(* State-machine model of rank_llm's OpenAI listwise reranker:             *)
(*   SafeOpenaiBackend._call_completion   (the Backend Invoker)            *)
(*   SafeOpenaiBackend.run_llm                                             *)
(*   SafeOpenaiBackend.rerank_batch                                        *)
(*   ListwiseRankLLM.sliding_windows / permutation_pipeline /              *)
(*   receive_permutation  (the Sliding-Window Orchestrator and the         *)
(*   Response Parser; listwise_rankllm.py is not part of the source tree,  *)
(*   these are modelled from sections 4.3 and 4.4 of the specification).   *)
(*                                                                         *)
(* A text is a sequence of tokens (strings); the tokenizer's count of a    *)
(* text is its length.                                                     *)
(***************************************************************************)
EXTENDS Integers, Sequences, FiniteSets, TLC

VARIABLES
    \* ---- rerank_batch: arguments and loop state
    requests,         \* the batch: a sequence of candidate sequences
    rank_start,       \* argument rank_start
    rank_end,         \* argument rank_end
    top_k_retrieve,   \* kwargs["top_k_retrieve"], NoArg when absent
    window_size,      \* kwargs["window_size"]
    stride,           \* kwargs["stride"]
    req_idx,          \* 1-based index of the Request the for loop is at
    results,          \* the list `results`
    \* ---- sliding_windows: one sweep over one Request
    sw,               \* the arguments the sweep was called with
    candidates,       \* the working candidate sequence of the sweep
    start_pos,        \* current window start
    end_pos,          \* current window end
    windows,          \* the windows processed so far in this sweep, in order
    \* ---- _call_completion / run_llm
    caller,           \* "run_llm" or "direct"
    completion_mode,  \* "CHAT", "TEXT" or "UNSPECIFIED"
    return_text,      \* the return_text argument
    i,                \* the loop variable of `for i in range(3)`
    completion,       \* the local variable `completion`
    contacts,         \* the backend contacts of this call, in order
    call_result,      \* what _call_completion returned
    llm_result,       \* what run_llm returned
    pc,               \* control position
    \* ---- the backend and the operations modelled on their own
    backend,          \* "any": answers anything; "reverse": reverses the window
    parse,            \* one call of the Response Parser
    cp,               \* one call of create_prompt
    ctor,             \* one construction of a SafeOpenaiBackend, then its use
    mp,               \* one top-level reranking call of num_passes sweeps
    ot,               \* an instance's num_output_tokens calls and its cache
    srv               \* the server: the held coordinator and its requests

batch_vars == <<requests, rank_start, rank_end, top_k_retrieve, window_size,
                stride, req_idx, results>>
sweep_vars == <<sw, candidates, start_pos, end_pos, windows>>
call_vars  == <<caller, completion_mode, return_text, i, completion, contacts,
                call_result, llm_result>>
aux_vars   == <<backend, parse, cp, ctor, mp, ot, srv>>
main_vars  == <<batch_vars, sweep_vars, call_vars, pc>>
vars == <<batch_vars, sweep_vars, call_vars, pc, aux_vars>>

(***************************************************************************)
(* Bounds of the model.                                                    *)
(***************************************************************************)
MaxCands  == 3     \* candidates per Request
MaxWindow == 3     \* largest window_size argument
MaxStride == 3     \* largest stride argument

(***************************************************************************)
(* Program constants.                                                      *)
(***************************************************************************)
MaxAttempts == 3   \* for i in range(3)
ChatTimeout == 30  \* {**kwargs, "timeout": 30}

NoArg    == -1     \* a keyword argument that was not passed
NoTimeout == 0     \* a backend call issued without a timeout argument
Unbound  == [kind |-> "unbound", text |-> <<>>]   \* a local never assigned
None     == [kind |-> "none", text |-> <<>>]

Min(a, b) == IF a <= b THEN a ELSE b
Max(a, b) == IF a >= b THEN a ELSE b

(***************************************************************************)
(* Texts.                                                                  *)
(***************************************************************************)
ERR_REDUCE == <<"ERROR::reduce_length">>
ERR_FILTER == <<"ERROR::The response was filtered">>
Sentinels  == {ERR_REDUCE, ERR_FILTER}

\* Texts the backend may answer with (1-based identifiers, "[2] > [1]").
BackendTexts ==
    { <<>>,                             \* an empty completion
      <<"2", ">", "1">>,                \* a partial ranking
      <<"3", ">", "1", ">", "3">>,      \* a duplicate and a missing identifier
      <<"9", ">", "2">>,                \* an identifier out of range
      <<"Sorry">> }                     \* no identifier at all

\* Markers an exception message may contain.
CTX    == "This model's maximum context length is"
FILTER == "The response was filtered"
ExceptionMessages == SUBSET {CTX, FILTER}

\* What one backend contact may do: answer with a text, or raise.
Outcomes ==
    [kind : {"response"}, text : BackendTexts, msg : {{}}]
    \cup [kind : {"exception"}, text : {<<>>}, msg : ExceptionMessages]

\* len(encoding.encode(response))
NumTokens(text) == Len(text)

(***************************************************************************)
(* Response Parser and window application (sections 4.3 and 4.4).          *)
(***************************************************************************)
Numerals ==
    << "1", "2", "3", "4", "5", "6", "7", "8", "9", "10", "11", "12",
       "13", "14", "15", "16", "17", "18", "19", "20", "21", "22", "23",
       "24", "25", "26", "27", "28", "29", "30" >>

IsNumeral(tok) == \E k \in 1..Len(Numerals) : Numerals[k] = tok

\* int(tok): the number a numeric token denotes
IntOf(tok) == CHOOSE k \in 1..Len(Numerals) : Numerals[k] = tok

\* the identifiers of a response, in order, as 0-based window positions
RECURSIVE ExtractIds(_)
ExtractIds(text) ==
    IF text = <<>> THEN <<>>
    ELSE (IF IsNumeral(Head(text)) THEN <<IntOf(Head(text)) - 1>> ELSE <<>>)
         \o ExtractIds(Tail(text))

\* keep only the first occurrence of every identifier
RECURSIVE RemoveDuplicateFrom(_, _)
RemoveDuplicateFrom(ids, seen) ==
    IF ids = <<>> THEN <<>>
    ELSE IF Head(ids) \in seen THEN RemoveDuplicateFrom(Tail(ids), seen)
    ELSE <<Head(ids)>> \o RemoveDuplicateFrom(Tail(ids), seen \cup {Head(ids)})

RemoveDuplicate(ids) == RemoveDuplicateFrom(ids, {})

\* the set of elements of seq
Range(seq) == {seq[k] : k \in 1..Len(seq)}

\* 0, 1, ..., n-1 as a sequence
Iota(n) == [k \in 1..n |-> k - 1]

\* a variant that puts the missing identifiers first
ParseResponseMissingFirst(text, n) ==
    LET kept == SelectSeq(RemoveDuplicate(ExtractIds(text)),
                          LAMBDA x : x \in 0..(n - 1))
    IN  SelectSeq(Iota(n), LAMBDA x : x \notin Range(kept)) \o kept

\* a variant that keeps every occurrence of an identifier
ParseResponseKeepDuplicates(text, n) ==
    LET kept == SelectSeq(ExtractIds(text), LAMBDA x : x \in 0..(n - 1))
    IN  kept \o SelectSeq(Iota(n), LAMBDA x : x \notin Range(kept))

\* section 4.3: in-range identifiers by first occurrence, then the missing
\* identifiers in their original relative order
ParseResponse(text, n) ==
    LET kept == SelectSeq(RemoveDuplicate(ExtractIds(text)),
                          LAMBDA x : x \in 0..(n - 1))
    IN  kept \o SelectSeq(Iota(n), LAMBDA x : x \notin Range(kept))

\* the number of positions of the half-open window [from, to)
WindowLen(from, to) == IF to > from THEN to - from ELSE 0

\* a variant that also moves the first candidate to the window's start
ApplyPermutationFromFirst(cands, from, to, perm) ==
    [k \in 1..Len(cands) |->
        IF from < k /\ k <= to THEN cands[from + perm[k - from] + 1]
        ELSE IF k = 1 /\ to > from THEN cands[from + 1]
        ELSE cands[k]]

\* section 4.4, Step: reorder the working sequence within [from, to)
ApplyPermutation(cands, from, to, perm) ==
    [k \in 1..Len(cands) |->
        IF from < k /\ k <= to THEN cands[from + perm[k - from] + 1]
        ELSE cands[k]]

\* a variant whose windows hold one candidate too few
WindowStartOffByOne(e, range_start, w) == Max(range_start, e - w + 1)

\* section 4.4: the window whose end is e
WindowStart(e, range_start, w) == Max(range_start, e - w)

(***************************************************************************)
(* _call_completion: one iteration of `for i in range(3)`.                 *)
(***************************************************************************)
\* the timeout argument of the backend call of one attempt
AttemptTimeout(mode) == IF mode = "CHAT" THEN ChatTimeout ELSE NoTimeout

\* a variant that forgets the content-filter check
ClassifyNoFilter(msg) == IF CTX \in msg THEN "reduce_length" ELSE "retry"

\* the except clause: which way str(e) sends the call
Classify(msg) ==
    IF CTX \in msg THEN "reduce_length"
    ELSE IF FILTER \in msg THEN "filtered"
    ELSE "retry"

\* a variant that never takes a completion for empty
IsEmptyCompletionNever(text) == FALSE

\* `if len(completion) == 0: raise Exception("Empty completion")`
IsEmptyCompletion(text) == Len(text) = 0

\* the record of one backend contact: the timeout it was issued with, what
\* the backend did, and whether the attempt's try block raised
Contact(mode, o, failed) ==
    [timeout |-> AttemptTimeout(mode), kind |-> o.kind, msg |-> o.msg,
     empty |-> (o.kind = "response" /\ Len(o.text) = 0), failed |-> failed]

\* The try block of one attempt, given what the backend does when contacted:
\* the new value of `completion`, whether the block raised and with which
\* message, and the backend contact made (none in an unsupported mode).
TryBlock(mode, rt, comp, o) ==
    IF mode \notin {"CHAT", "TEXT"}
    THEN [completion |-> comp, raised |-> TRUE, msg |-> {}, contact |-> <<>>]
    ELSE IF o.kind = "exception"
    THEN [completion |-> comp, raised |-> TRUE, msg |-> o.msg,
          contact |-> <<Contact(mode, o, TRUE)>>]
    ELSE IF ~rt
    THEN [completion |-> [kind |-> "object", text |-> o.text],
          raised |-> FALSE, msg |-> {},
          contact |-> <<Contact(mode, o, FALSE)>>]
    ELSE IF IsEmptyCompletion(o.text)
    THEN [completion |-> [kind |-> "text", text |-> o.text],
          raised |-> TRUE, msg |-> {},
          contact |-> <<Contact(mode, o, TRUE)>>]
    ELSE [completion |-> [kind |-> "text", text |-> o.text],
          raised |-> FALSE, msg |-> {},
          contact |-> <<Contact(mode, o, FALSE)>>]

\* a variant with one iteration too many
LoopContinuesOffByOne(k) == k <= MaxAttempts

\* whether `for i in range(3)` has another iteration at index k
LoopContinues(k) == k < MaxAttempts

\* where control goes after a try block that did not raise (`break`)
AfterSuccess(k) == [pc |-> "call_after_loop", i |-> k]

\* where control goes after a caught, unclassified exception (sleep, next i)
AfterRetry(k) ==
    [pc |-> IF LoopContinues(k + 1) THEN "call_loop" ELSE "call_after_loop",
     i  |-> k + 1]

\* the answer of a backend that ranks the n candidates of the window in
\* reverse: "[n] > ... > [2] > [1]"
ReverseText(n) ==
    [k \in 1..(IF n = 0 THEN 0 ELSE 2 * n - 1) |->
        IF k % 2 = 1 THEN Numerals[n - (k - 1) \div 2] ELSE ">"]

\* what one contact of the backend may do for a window of n candidates
OutcomesOf(kind, n) ==
    IF kind = "reverse"
    THEN {[kind |-> "response", text |-> ReverseText(n), msg |-> {}]}
    ELSE Outcomes

CallAttempt ==
    /\ pc = "call_loop"
    /\ \E o \in OutcomesOf(backend, WindowLen(start_pos, end_pos)) :
         LET r == TryBlock(completion_mode, return_text, completion, o) IN
         /\ completion' = r.completion
         /\ contacts' = contacts \o r.contact
         /\ IF ~r.raised
            THEN /\ pc' = AfterSuccess(i).pc
                 /\ i' = AfterSuccess(i).i
                 /\ UNCHANGED call_result
            ELSE IF Classify(r.msg) = "reduce_length"
            THEN /\ call_result' = [kind |-> "text", text |-> ERR_REDUCE]
                 /\ pc' = "call_returned"
                 /\ UNCHANGED i
            ELSE IF Classify(r.msg) = "filtered"
            THEN /\ call_result' = [kind |-> "text", text |-> ERR_FILTER]
                 /\ pc' = "call_returned"
                 /\ UNCHANGED i
            ELSE /\ pc' = AfterRetry(i).pc
                 /\ i' = AfterRetry(i).i
                 /\ UNCHANGED call_result
    /\ UNCHANGED <<caller, completion_mode, return_text, llm_result>>
    /\ UNCHANGED <<batch_vars, sweep_vars>>
    /\ UNCHANGED aux_vars

\* `return completion` after the loop: the value of the local, or an
\* UnboundLocalError when no attempt ever assigned it
ReturnCompletion(comp) ==
    IF comp = Unbound THEN [kind |-> "raised", text |-> <<>>] ELSE comp

CallReturn ==
    /\ pc = "call_after_loop"
    /\ call_result' = ReturnCompletion(completion)
    /\ pc' = IF call_result'.kind = "raised" THEN "raised" ELSE "call_returned"
    /\ UNCHANGED <<caller, completion_mode, return_text, i, completion,
                   contacts, llm_result>>
    /\ UNCHANGED <<batch_vars, sweep_vars>>
    /\ UNCHANGED aux_vars

(***************************************************************************)
(* run_llm: returns the response of _call_completion with its token count. *)
(***************************************************************************)
RunLlmResult(response) ==
    [response |-> response.text, num_tokens |-> NumTokens(response.text)]

RunLlmReturn ==
    /\ pc = "call_returned"
    /\ caller = "run_llm"
    /\ llm_result' = RunLlmResult(call_result)
    /\ pc' = "llm_returned"
    /\ UNCHANGED <<caller, completion_mode, return_text, i, completion,
                   contacts, call_result>>
    /\ UNCHANGED <<batch_vars, sweep_vars>>
    /\ UNCHANGED aux_vars

(***************************************************************************)
(* rerank_batch: the loop over the Requests of the batch.                  *)
(***************************************************************************)
\* top_k_retrieve = kwargs.get("top_k_retrieve", rank_end)
TopK == IF top_k_retrieve = NoArg THEN rank_end ELSE top_k_retrieve

\* a variant that takes rank_start and rank_end as they were given
SweepArgsUnclamped(n) ==
    [rank_start  |-> rank_start,
     rank_end    |-> Min(TopK, rank_end),
     window_size |-> Min(window_size, TopK),
     stride      |-> stride]

\* a variant that hands the stride on as the window size
SweepArgsStrideAsWindow(n) ==
    [rank_start  |-> Max(rank_start, 0),
     rank_end    |-> Min(Min(TopK, rank_end), n),
     window_size |-> Min(stride, TopK),
     stride      |-> stride]

\* a variant that clamps rank_start at 1 instead of 0
SweepArgsStartAtOne(n) ==
    [rank_start  |-> Max(rank_start, 1),
     rank_end    |-> Min(Min(TopK, rank_end), n),
     window_size |-> Min(window_size, TopK),
     stride      |-> stride]

\* the keyword arguments rerank_batch hands to sliding_windows for a Request
\* with n candidates
SweepArgs(n) ==
    [rank_start  |-> Max(rank_start, 0),
     rank_end    |-> Min(Min(TopK, rank_end), n),
     window_size |-> Min(window_size, TopK),
     stride      |-> stride]

\* a variant that puts the newest Result first
AppendResultInFront(rs, result) == <<result>> \o rs

\* results.append(result)
AppendResult(rs, result) == Append(rs, result)

\* `for request in requests`: the next Request's sweep starts with the window
\* at the end of the range (section 4.4, Initial state)
SlidingWindowsStart ==
    /\ pc = "batch_loop"
    /\ req_idx <= Len(requests)
    /\ LET a == SweepArgs(Len(requests[req_idx])) IN
         /\ sw' = a
         /\ candidates' = requests[req_idx]
         /\ end_pos' = a.rank_end
         /\ start_pos' = WindowStart(a.rank_end, a.rank_start, a.window_size)
    /\ windows' = <<>>
    /\ pc' = "window"
    /\ UNCHANGED <<batch_vars, call_vars>>
    /\ UNCHANGED aux_vars

\* `return results`
BatchReturn ==
    /\ pc = "batch_loop"
    /\ req_idx > Len(requests)
    /\ pc' = "batch_done"
    /\ UNCHANGED <<batch_vars, sweep_vars, call_vars>>
    /\ UNCHANGED aux_vars

(***************************************************************************)
(* sliding_windows: one window step (section 4.4).                         *)
(***************************************************************************)
\* Step, first half: the window is handed to the pipeline, which calls
\* run_llm, which calls _call_completion in CHAT mode with return_text=True
WindowStep ==
    /\ pc = "window"
    /\ windows' = Append(windows, <<start_pos, end_pos>>)
    /\ caller' = "run_llm"
    /\ completion_mode' = "CHAT"
    /\ return_text' = TRUE
    /\ i' = 0
    /\ completion' = Unbound
    /\ contacts' = <<>>
    /\ call_result' = None
    /\ llm_result' = None
    /\ pc' = "call_loop"
    /\ UNCHANGED <<batch_vars, sw, candidates, start_pos, end_pos>>
    /\ UNCHANGED aux_vars

\* a variant that tests the terminal state the wrong way round
SweepDoneNegated(from, range_start) == from # range_start

\* Terminal state: the window at rank_start has been processed
SweepDone(from, range_start) == from = range_start

\* Advance: the end of the next window
NextEnd(e, s) == e - s

\* Step, second half: parse the response, reorder the window; then either
\* the sweep is over and its Result is appended, or the window advances
WindowApply ==
    /\ pc = "llm_returned"
    /\ LET n    == WindowLen(start_pos, end_pos)
           perm == ParseResponse(llm_result.response, n)
       IN  candidates' = ApplyPermutation(candidates, start_pos, end_pos, perm)
    /\ IF SweepDone(start_pos, sw.rank_start)
       THEN /\ results' = AppendResult(results, [candidates |-> candidates'])
            /\ req_idx' = req_idx + 1
            /\ pc' = "batch_loop"
            /\ UNCHANGED <<start_pos, end_pos>>
       ELSE /\ end_pos' = NextEnd(end_pos, sw.stride)
            /\ start_pos' = WindowStart(end_pos', sw.rank_start, sw.window_size)
            /\ pc' = "window"
            /\ UNCHANGED <<results, req_idx>>
    /\ UNCHANGED <<requests, rank_start, rank_end, top_k_retrieve, window_size,
                   stride, sw, windows, call_vars>>
    /\ UNCHANGED aux_vars

(***************************************************************************)
(* Specifications.                                                         *)
(***************************************************************************)
\* a Request with n candidates, identified 1..n in their retrieved order
RequestOf(n) == [k \in 1..n |-> k]

Batches == {<<RequestOf(n)>> : n \in 1..MaxCands}

\* an operation modelled on its own that is not running
Idle == [pc |-> "idle"]

AuxIdle ==
    /\ backend = "any"
    /\ ot = Idle
    /\ srv = Idle
    /\ parse = Idle
    /\ cp = Idle
    /\ ctor = Idle
    /\ mp = Idle

CallIdle ==
    /\ caller = "run_llm"
    /\ completion_mode = "CHAT"
    /\ return_text = TRUE
    /\ i = 0
    /\ completion = Unbound
    /\ contacts = <<>>
    /\ call_result = None
    /\ llm_result = None

\* rerank_batch is called
Init ==
    /\ requests \in Batches
    /\ rank_start \in 0..1
    /\ rank_end \in 1..(MaxCands + 1)
    /\ top_k_retrieve \in {NoArg, 2}
    /\ window_size \in 1..MaxWindow
    /\ stride \in 1..MaxStride
    /\ req_idx = 1
    /\ results = <<>>
    /\ sw = [rank_start |-> 0, rank_end |-> 0, window_size |-> 0, stride |-> 0]
    /\ candidates = <<>>
    /\ start_pos = 0
    /\ end_pos = 0
    /\ windows = <<>>
    /\ CallIdle
    /\ pc = "batch_loop"
    /\ AuxIdle

Next ==
    \/ SlidingWindowsStart
    \/ BatchReturn
    \/ WindowStep
    \/ CallAttempt
    \/ CallReturn
    \/ RunLlmReturn
    \/ WindowApply

Spec == Init /\ [][Next]_vars

\* the scheduling is a single thread of control: a step that can be taken is
\* eventually taken
FairSpec == Spec /\ WF_vars(Next)

\* _call_completion is called, by run_llm or directly with any completion
\* mode and return_text
InitCall ==
    /\ requests = <<>>
    /\ rank_start = 0
    /\ rank_end = 0
    /\ top_k_retrieve = NoArg
    /\ window_size = 0
    /\ stride = 0
    /\ req_idx = 1
    /\ results = <<>>
    /\ sw = [rank_start |-> 0, rank_end |-> 0, window_size |-> 0, stride |-> 0]
    /\ candidates = <<>>
    /\ start_pos = 0
    /\ end_pos = 0
    /\ windows = <<>>
    /\ \/ /\ caller = "run_llm"
          /\ completion_mode = "CHAT"
          /\ return_text = TRUE
       \/ /\ caller = "direct"
          /\ completion_mode \in {"CHAT", "TEXT", "UNSPECIFIED"}
          /\ return_text \in BOOLEAN
    /\ i = 0
    /\ completion = Unbound
    /\ contacts = <<>>
    /\ call_result = None
    /\ llm_result = None
    /\ pc = "call_loop"
    /\ AuxIdle

\* rerank_batch and _call_completion are not running
MainIdle ==
    /\ requests = <<>>
    /\ rank_start = 0
    /\ rank_end = 0
    /\ top_k_retrieve = NoArg
    /\ window_size = 0
    /\ stride = 0
    /\ req_idx = 1
    /\ results = <<>>
    /\ sw = [rank_start |-> 0, rank_end |-> 0, window_size |-> 0, stride |-> 0]
    /\ candidates = <<>>
    /\ start_pos = 0
    /\ end_pos = 0
    /\ windows = <<>>
    /\ CallIdle
    /\ pc = "idle"

NextCall ==
    \/ CallAttempt
    \/ CallReturn
    \/ RunLlmReturn

SpecCall == InitCall /\ [][NextCall]_vars

(***************************************************************************)
(* Properties of the Backend Invoker, checked under SpecCall.              *)
(***************************************************************************)
CallOver == pc \in {"call_returned", "llm_returned", "raised"}

\* C1: in one call of _call_completion the backend is contacted at most 3
\* times, and every contact but the last one failed: a further attempt is
\* made only after a failed one and none is made after a successful one.
C1_BoundedAttempts ==
    /\ Len(contacts) <= 3
    /\ \A k \in 1..Len(contacts) : k < Len(contacts) => contacts[k].failed
    /\ \A k \in 1..Len(contacts) : ~contacts[k].failed => pc # "call_loop"

\* C1 witness: two failed attempts, then a third one that succeeds and ends
\* the call.
C1_Witness ==
    /\ Len(contacts) = 3
    /\ ~contacts[3].failed
    /\ pc = "call_returned"

\* all three attempts failed by an empty completion or an exception that is
\* neither context-length-exceeded nor content-filtered
AllAttemptsFailed ==
    /\ completion_mode \in {"CHAT", "TEXT"}
    /\ Len(contacts) = 3
    /\ \A k \in 1..3 : contacts[k].failed /\ contacts[k].msg = {}

\* C2: when all 3 attempts of a call have failed, the call ends by reporting
\* a failure; it does not return a value.
C2_ExhaustedCallFails ==
    (AllAttemptsFailed /\ CallOver) => call_result.kind = "raised"

\* C3: run_llm never returns a failure sentinel (context length exceeded or
\* content filtered) as its response text with a token count: a call that
\* ended with a sentinel does not make run_llm return normally.
C3_SentinelIsFailure ==
    pc = "llm_returned" =>
        /\ call_result.text \notin Sentinels
        /\ llm_result.response \notin Sentinels

\* C4: an attempt that fails with a context-length-exceeded or a
\* content-filtered exception, whichever attempt it is, is the last attempt
\* of the call, and the call returns the corresponding sentinel.
C4_ShortCircuit ==
    \A k \in 1..Len(contacts) :
        (contacts[k].kind = "exception" /\ contacts[k].msg # {}) =>
            /\ k = Len(contacts)
            /\ pc \in {"call_returned", "llm_returned"}
            /\ call_result.kind = "text"
            /\ contacts[k].msg = {CTX} => call_result.text = ERR_REDUCE
            /\ contacts[k].msg = {FILTER} => call_result.text = ERR_FILTER
            /\ call_result.text \in Sentinels

\* C4 witness: the third attempt is the one that is content-filtered.
C4_Witness ==
    /\ Len(contacts) = 3
    /\ contacts[3].msg = {FILTER}
    /\ call_result.text = ERR_FILTER

\* attempt k was followed by what follows a transient failure: another
\* attempt while attempts remain, the end of the loop otherwise; the call
\* did not return at attempt k
Retried(k) ==
    IF k < 3
    THEN Len(contacts) > k \/ (pc = "call_loop" /\ i = k)
    ELSE i = 3 /\ (pc = "call_after_loop" \/ call_result.text \notin Sentinels)

\* C5 as stated: every attempt whose completion text is empty is a failed
\* attempt and is retried like a generic exception.
C5_EmptyIsRetried ==
    \A k \in 1..Len(contacts) :
        /\ (contacts[k].kind = "response" /\ contacts[k].empty) =>
               contacts[k].failed /\ Retried(k)
        /\ (contacts[k].kind = "exception" /\ contacts[k].msg = {}) =>
               contacts[k].failed /\ Retried(k)

\* C5 amended: when the call is made with return_text set, every attempt
\* whose completion text is empty is a failed attempt and is retried like a
\* generic exception: another attempt follows while attempts remain, and
\* the call never returns at that attempt.
C5_EmptyIsRetriedWhenTextAsked ==
    \A k \in 1..Len(contacts) :
        /\ (return_text /\ contacts[k].kind = "response" /\ contacts[k].empty) =>
               contacts[k].failed /\ Retried(k)
        /\ (contacts[k].kind = "exception" /\ contacts[k].msg = {}) =>
               contacts[k].failed /\ Retried(k)

\* C5 witness: an empty completion on the first attempt, a generic exception
\* on the second, a successful third attempt.
C5_Witness ==
    /\ return_text
    /\ Len(contacts) = 3
    /\ contacts[1].empty
    /\ contacts[2].kind = "exception"
    /\ ~contacts[3].failed
    /\ pc = "call_returned"

\* C6: every backend contact is issued with a timeout of 30, whatever the
\* attempt number and the completion mode.
C6_TimeoutEveryAttempt ==
    \A k \in 1..Len(contacts) : contacts[k].timeout = 30

(***************************************************************************)
(* Properties of the sliding-window sweep, checked under Spec / FairSpec.  *)
(***************************************************************************)
\* the sweep of the last Request started has processed its last window and
\* appended its Result
SweepFinished == pc \in {"batch_loop", "batch_done"} /\ Len(results) >= 1

\* the range rerank_batch is asked to rerank for the Request being swept
RangeStart == Max(rank_start, 0)
RangeEnd ==
    LET n == Len(requests[Len(results)]) IN Min(Min(rank_end, TopK), n)

\* index k lies in a window processed in this sweep
Covered(k) ==
    \E j \in 1..Len(windows) : windows[j][1] <= k /\ k < windows[j][2]

\* C7 as stated: for every window_size >= 1 and stride >= 1, the windows of
\* a finished sweep cover every index of [rank_start, rank_end).
C7_RangeCovered ==
    SweepFinished => \A k \in RangeStart..(RangeEnd - 1) : Covered(k)

\* C7 amended: for every window_size >= 1 and every stride with
\* 1 <= stride <= window_size, the windows of a finished sweep cover every
\* index of [rank_start, rank_end).
C7_RangeCoveredWhenStrideFits ==
    (SweepFinished /\ stride <= window_size) =>
        \A k \in RangeStart..(RangeEnd - 1) : Covered(k)

\* C7 witness: a finished sweep of several windows whose stride fits the
\* window and does not divide the range evenly, so that the last window is
\* the clamped, shorter one.
C7_Witness ==
    /\ SweepFinished
    /\ Len(windows) >= 2
    /\ stride <= window_size
    /\ RangeEnd - RangeStart = 3
    /\ windows[Len(windows)][2] - windows[Len(windows)][1] < sw.window_size

\* the number of windows processed in this sweep that start at rank_start
StartHits ==
    Cardinality({j \in 1..Len(windows) : windows[j][1] = sw.rank_start})

C9_BackToFront ==
    /\ Len(windows) >= 1 =>
         /\ windows[1][2] = sw.rank_end
         /\ windows[1][1] = Max(sw.rank_start, sw.rank_end - sw.window_size)
    /\ \A j \in 2..Len(windows) :
         /\ windows[j][2] < windows[j - 1][2]
         /\ windows[j][1] <= windows[j - 1][1]
    /\ SweepFinished => windows[Len(windows)][1] = sw.rank_start

\* C9 witness: a finished sweep of three windows, the first one not
\* touching rank_start.
C9_Witness ==
    /\ SweepFinished
    /\ Len(windows) = 3
    /\ windows[1][1] > sw.rank_start
    /\ windows[3][1] = sw.rank_start

\* seq holds exactly the candidates of req, each once
IsPermutationOf(seq, req) ==
    /\ Len(seq) = Len(req)
    /\ \A c \in Range(req) :
         Cardinality({k \in 1..Len(seq) : seq[k] = c}) = 1

\* C10: at every point of a sweep the working candidate order is a
\* permutation of the Request's candidates, and so is every Result.
C10_Permutation ==
    /\ pc \in {"window", "call_loop", "call_after_loop", "call_returned",
               "llm_returned", "raised"} =>
           IsPermutationOf(candidates, requests[req_idx])
    /\ \A j \in 1..Len(results) :
           IsPermutationOf(results[j].candidates, requests[j])

\* C10 witness: a Result of a sweep of several windows whose order differs
\* from the Request's.
C10_Witness ==
    /\ pc = "batch_done"
    /\ Len(windows) >= 2
    /\ results[1].candidates # requests[1]
    /\ Len(results[1].candidates) = 3

(***************************************************************************)
(* The Response Parser on its own (section 4.3): one call on any response  *)
(* of up to MaxTextLen tokens for any window of up to MaxParseN            *)
(* candidates.                                                             *)
(***************************************************************************)
MaxTextLen == 4    \* tokens of a raw response
MaxParseN  == 3    \* size of the window the response is parsed for

\* the tokens of a response: the identifiers 1..MaxParseN+1 and a separator
ParseTokens == {Numerals[k] : k \in 1..(MaxParseN + 1)} \cup {">"}

\* every sequence over S of length at most n
SeqsUpTo(S, n) == UNION {[1..m -> S] : m \in 0..n}

InitParse ==
    /\ MainIdle
    /\ backend = "any"
    /\ ot = Idle
    /\ srv = Idle
    /\ cp = Idle
    /\ ctor = Idle
    /\ mp = Idle
    /\ \E text \in SeqsUpTo(ParseTokens, MaxTextLen), n \in 0..MaxParseN :
         parse = [pc |-> "called", text |-> text, n |-> n, result |-> <<>>]

\* the parser returns
ParseReturn ==
    /\ parse.pc = "called"
    /\ parse' = [parse EXCEPT !.pc = "returned",
                              !.result = ParseResponse(parse.text, parse.n)]
    /\ UNCHANGED <<main_vars, backend, ot, srv, cp, ctor, mp>>

NextParse == ParseReturn

SpecParse == InitParse /\ [][NextParse]_vars

\* identifier x (a 0-based window position) is written in the response
Written(text, x) == \E k \in 1..Len(text) : text[k] = Numerals[x + 1]

\* the position of the first occurrence of identifier x in the response
FirstOccurrence(text, x) ==
    CHOOSE k \in 1..Len(text) :
        /\ text[k] = Numerals[x + 1]
        /\ \A j \in 1..(k - 1) : text[j] # Numerals[x + 1]

\* C11: the parser's result is a total permutation of 0..N-1; it starts with
\* the in-range identifiers of the response in the order of their first
\* occurrence (later duplicates and out-of-range identifiers dropped) and
\* ends with the identifiers missing from the response in increasing, that
\* is original, order.
C11_ParserResult ==
    parse.pc = "returned" =>
        LET r == parse.result
            n == parse.n
            t == parse.text
            m == Cardinality({x \in 0..(n - 1) : Written(t, x)})
        IN  /\ Len(r) = n
            /\ Range(r) = 0..(n - 1)
            /\ \A p \in 1..m : Written(t, r[p])
            /\ \A p \in 1..m : \A q \in (p + 1)..m :
                   FirstOccurrence(t, r[p]) < FirstOccurrence(t, r[q])
            /\ \A p \in (m + 1)..n : ~Written(t, r[p])
            /\ \A p \in (m + 1)..n : \A q \in (p + 1)..n : r[p] < r[q]

\* C11 witness: a response for a window of 3 with a duplicate, an
\* out-of-range identifier and a missing identifier.
C11_Witness ==
    /\ parse.pc = "returned"
    /\ parse.n = 3
    /\ parse.text = <<"3", "4", "3", "1">>
    /\ parse.result = <<2, 0, 1>>

(***************************************************************************)
(* create_prompt on its own: one call for a window of n candidates.  A     *)
(* text is measured in tokens; a prompt is a list of messages, each with   *)
(* the token counts of its role and of its content.                        *)
(***************************************************************************)
MaxPromptWindow == 2    \* candidates of the window, and self._window_size
MaxBelowZero    == 3    \* how far below zero max_length is followed

InitialBudget == 300    \* max_length for a window of self._window_size
Priming       == 3      \* tokens that prime every reply

Models       == {"gpt-3.5-turbo", "gpt-4", "other"}
ContextSizes == {16, 64, 512}      \* max_tokens()
Overheads    == {4, 100}           \* tokens of the framing and the query
DocLens      == {0, 7, 350}        \* tokens of one candidate's content

\* sum of a sequence of numbers
RECURSIVE SumSeq(_)
SumSeq(q) == IF q = <<>> THEN 0 ELSE q[1] + SumSeq(Tail(q))

\* a variant that counts one token fewer for every message
TokensPerMessageLess(model) ==
    IF model = "gpt-3.5-turbo" THEN 3
    ELSE IF model = "gpt-4" THEN 2
    ELSE -1

TokensPerMessage(model) ==
    IF model = "gpt-3.5-turbo" THEN 4
    ELSE IF model = "gpt-4" THEN 3
    ELSE 0

\* get_num_tokens of a list of messages
GetNumTokens(prompt, model) ==
    SumSeq([d \in 1..Len(prompt) |->
               TokensPerMessage(model) + prompt[d].role + prompt[d].content])
    + Priming

\* num_output_tokens(): the tokens of "[1] > [2] > ... > [w]", less one
NumOutputTokens(w) == (IF w = 0 THEN 0 ELSE 2 * w - 1) - 1

\* the prompt rendered for a budget of max_length per candidate: the framing
\* and the query, then every candidate cut to the budget
GeneratePrompt(overhead, docs, max_length) ==
    <<[role |-> 1, content |-> overhead]>> \o
    [d \in 1..Len(docs) |->
        [role |-> 1, content |-> Min(docs[d], Max(max_length, 0))]]

\* a variant that lets a prompt through that is one token too long
FitsOffByOne(num_tokens, max_tokens, w) ==
    num_tokens <= max_tokens - NumOutputTokens(w) + 1

\* the prompt leaves room for the response
Fits(num_tokens, max_tokens, w) ==
    num_tokens <= max_tokens - NumOutputTokens(w)

\* the next, smaller budget
Shrink(max_length, num_tokens, max_tokens, w, n) ==
    max_length - Max(1, (num_tokens - max_tokens + NumOutputTokens(w))
                            \div (n * 4))

\* max_length before the loop, for self._window_size w and a window of n
InitialMaxLength(w, n) == InitialBudget * (w \div n)

InitPrompt ==
    /\ MainIdle
    /\ backend = "any"
    /\ ot = Idle
    /\ srv = Idle
    /\ parse = Idle
    /\ ctor = Idle
    /\ mp = Idle
    /\ \E w \in 1..MaxPromptWindow, n \in 1..MaxPromptWindow,
          model \in Models, max_tokens \in ContextSizes,
          overhead \in Overheads :
         \E docs \in [1..n -> DocLens] :
           cp = [pc |-> "loop",
                 model |-> model,
                 window_size |-> w,            \* self._window_size
                 max_tokens |-> max_tokens,
                 overhead |-> overhead,
                 docs |-> docs,                \* the window's candidates
                 max_length |-> InitialMaxLength(w, n),
                 rendered |-> <<>>,            \* the budgets rendered so far
                 prompt |-> <<>>,
                 num_tokens |-> 0]

\* one turn of the loop: render, measure, then return or shrink
CreatePromptTurn ==
    /\ cp.pc = "loop"
    /\ cp.max_length > -MaxBelowZero
    /\ LET prompt == GeneratePrompt(cp.overhead, cp.docs, cp.max_length)
           num_tokens == GetNumTokens(prompt, cp.model)
       IN  cp' = [cp EXCEPT
                    !.prompt = prompt,
                    !.num_tokens = num_tokens,
                    !.rendered = Append(cp.rendered, cp.max_length),
                    !.pc = IF Fits(num_tokens, cp.max_tokens, cp.window_size)
                           THEN "returned" ELSE "loop",
                    !.max_length =
                        IF Fits(num_tokens, cp.max_tokens, cp.window_size)
                        THEN cp.max_length
                        ELSE Shrink(cp.max_length, num_tokens, cp.max_tokens,
                                    cp.window_size, Len(cp.docs))]
    /\ UNCHANGED <<main_vars, backend, ot, srv, parse, ctor, mp>>

NextPrompt == CreatePromptTurn

SpecPrompt == InitPrompt /\ [][NextPrompt]_vars

\* C12: create_prompt always terminates: it returns a prompt that fits, or
\* fails with PromptTooLarge once the per-candidate budget has reached its
\* floor without fitting.  No budget can be below zero, so a call that is
\* still in its loop has never rendered a prompt for a budget of zero or
\* less.
C12_LoopEndsAtFloor ==
    cp.pc = "loop" =>
        \A k \in 1..Len(cp.rendered) : cp.rendered[k] > 0

\* C13: the prompt create_prompt returns leaves room for the response, and
\* the count returned with it is the count of that prompt.
C13_ReturnedPromptFits ==
    cp.pc = "returned" =>
        /\ GetNumTokens(cp.prompt, cp.model)
               <= cp.max_tokens - NumOutputTokens(cp.window_size)
        /\ cp.num_tokens = GetNumTokens(cp.prompt, cp.model)
        /\ cp.prompt = GeneratePrompt(cp.overhead, cp.docs, cp.max_length)

\* C13 witness: a prompt returned after an earlier, larger rendering did not
\* fit.
C13_Witness ==
    /\ cp.pc = "returned"
    /\ Len(cp.rendered) >= 2
    /\ cp.num_tokens <= cp.max_tokens - NumOutputTokens(cp.window_size)
    /\ \E d \in 1..Len(cp.docs) : cp.prompt[d + 1].content < cp.docs[d]

(***************************************************************************)
(* rerank_batch on a batch of two Requests, called with the default        *)
(* rank_end, window_size and stride.                                       *)
(***************************************************************************)
MaxBatchCands == 2      \* candidates of one Request of the batch

DefaultRankEnd    == 100
DefaultWindowSize == 20
DefaultStride     == 10

\* a Request with n candidates whose identifiers start after base
RequestFrom(base, n) == [k \in 1..n |-> base + k]

BatchesOfTwo ==
    {<<RequestFrom(0, a), RequestFrom(10, b)>> : a, b \in 1..MaxBatchCands}

InitBatch ==
    /\ requests \in BatchesOfTwo
    /\ rank_start = 0
    /\ rank_end = DefaultRankEnd
    /\ top_k_retrieve = NoArg
    /\ window_size = DefaultWindowSize
    /\ stride = DefaultStride
    /\ req_idx = 1
    /\ results = <<>>
    /\ sw = [rank_start |-> 0, rank_end |-> 0, window_size |-> 0, stride |-> 0]
    /\ candidates = <<>>
    /\ start_pos = 0
    /\ end_pos = 0
    /\ windows = <<>>
    /\ CallIdle
    /\ pc = "batch_loop"
    /\ AuxIdle

SpecBatch == InitBatch /\ [][Next]_vars

\* rerank_batch has returned or raised
BatchOver == pc \in {"batch_done", "raised"}

\* a sweep, or a backend call of it, is in progress
InSweep == pc \in {"window", "call_loop", "call_after_loop", "call_returned",
                   "llm_returned"}

\* C14: a failure of one Request's sweep aborts only that Request: when
\* rerank_batch is over, every Request of the batch has its Result, the failed
\* one included.
C14_FailureAbortsOneRequest ==
    BatchOver => Len(results) = Len(requests)

\* C15: the Requests are processed one after another in input order: while
\* the sweep of a Request is in progress, exactly the Requests before it have
\* their Results and the sweep works on that Request's candidates; the list
\* returned has one Result per Request, in the order of the Requests.
C15_SequentialInOrder ==
    /\ InSweep =>
          /\ req_idx \in 1..Len(requests)
          /\ Len(results) = req_idx - 1
          /\ IsPermutationOf(candidates, requests[req_idx])
    /\ pc \in {"batch_loop", "batch_done"} =>
          Len(results) = req_idx - 1
    /\ pc = "batch_done" =>
          /\ Len(results) = Len(requests)
          /\ \A k \in 1..Len(requests) :
                IsPermutationOf(results[k].candidates, requests[k])

\* C15 witness: a batch of two Requests returned, the first reordered.
C15_Witness ==
    /\ pc = "batch_done"
    /\ Len(requests) = 2
    /\ Len(results) = 2
    /\ results[1].candidates = <<2, 1>>
    /\ results[2].candidates = requests[2]

(***************************************************************************)
(* Construction of a SafeOpenaiBackend (SafeOpenaiBackend.__init__ and     *)
(* RankLLM.__init__), then backend calls through the instance.             *)
(***************************************************************************)
MaxKeys    == 2     \* keys of the pool
MaxFewShot == 2     \* num_few_shot_examples
MaxCalls   == 2     \* backend calls followed after construction

KeyNames == <<"k1", "k2", "k3", "k4">>

\* the keys argument: None, a single key (or the empty string), or a list of
\* keys
KeysArgs ==
    {[kind |-> "none", val |-> <<>>], [kind |-> "str", val |-> "k1"],
     [kind |-> "str", val |-> ""]}
    \cup {[kind |-> "list", val |-> SubSeq(KeyNames, 1, m)] : m \in 0..MaxKeys}

\* the key_start_id argument: None, or an integer
KeyStartIds ==
    {[given |-> FALSE, val |-> 0]}
    \cup {[given |-> TRUE, val |-> v] : v \in (-(MaxKeys + 1))..(MaxKeys + 1)}

GptModes    == {"RANK_GPT", "RANK_GPT_APEER", "LRL"}
PromptModes == {"None", "MONOT5"} \cup GptModes

RecognizedMethods ==
    {"singleturn_listwise", "multiturn_listwise", "rankfid", "pointwise",
     "pairwise"}

\* the file at the template path: missing, or a document whose method field
\* is absent ("") or has some value
TemplateFiles ==
    {[exists |-> FALSE, method |-> ""]}
    \cup {[exists |-> TRUE, method |-> m] :
             m \in {"", "listwise_v2"} \cup RecognizedMethods}

\* the few_shot_file argument: None, or a path to a file that is missing,
\* is not JSON, or is well-formed
FewShotFiles == {"None", "missing", "malformed", "ok"}

\* keys after lines 62-63
NormalizeKeys(keys) ==
    IF keys.kind = "str" THEN <<keys.val>>
    ELSE IF keys.kind = "none" THEN <<>>
    ELSE keys.val

\* the template path after lines 76-88
TemplatePath(path, mode) ==
    IF path # "None" THEN path
    ELSE IF mode = "RANK_GPT" THEN "rank_gpt_template.yaml"
    ELSE IF mode = "RANK_GPT_APEER" THEN "rank_gpt_apeer_template.yaml"
    ELSE "rank_lrl_template.yaml"

\* a variant that falls back to the single-turn handler
CreateHandlerWithDefault(template) ==
    IF template.method = ""
    THEN [raised |-> TRUE, handler |-> "",
          error |-> "Please provide a method section in the template"]
    ELSE IF template.method \in RecognizedMethods
    THEN [raised |-> FALSE, handler |-> template.method, error |-> ""]
    ELSE [raised |-> FALSE, handler |-> "singleturn_listwise", error |-> ""]

\* _create_handler: the handler of the template's method; a missing method
\* (KeyError) and "Invalid template method" are both caught by the bare
\* except and raised again as one ValueError
CreateHandler(template) ==
    IF template.method \in RecognizedMethods
    THEN [raised |-> FALSE, handler |-> template.method, error |-> ""]
    ELSE [raised |-> TRUE, handler |-> "",
          error |-> "Please provide a method section in the template"]

\* a variant that asks for the file only from two examples on
NeedsFewShotFromTwo(num) == num > 1

\* self._num_few_shot_examples > 0
NeedsFewShot(num) == num > 0

\* _load_few_shot_examples, after the `if not few_shot_file` of line 66
LoadFewShotExamples(file) ==
    IF file = "None"
    THEN "few_shot_examples_file must be provided when num_few_shot_examples > 0"
    ELSE IF file = "missing" THEN "Few-shot examples file not found"
    ELSE IF file = "malformed"
    THEN "Invalid JSON format in few-shot examples file"
    ELSE ""

\* a variant that leaves out the modulo of line 102
CursorOfNoModulo(key_start_id, n) ==
    IF key_start_id.given /\ key_start_id.val # 0 THEN key_start_id.val ELSE 0

\* self._cur_key_id after lines 101-102
CursorOf(key_start_id, n) ==
    (IF key_start_id.given /\ key_start_id.val # 0
     THEN key_start_id.val ELSE 0) % n

\* self._keys[self._cur_key_id]: a negative index counts from the end, an
\* index outside the list raises IndexError
KeyAt(keys, idx) ==
    IF idx \in 0..(Len(keys) - 1) THEN keys[idx + 1]
    ELSE IF idx \in (-Len(keys))..(-1) THEN keys[Len(keys) + idx + 1]
    ELSE "IndexError"

\* the ValueErrors of the two constructors
ConfigurationErrors ==
    {"Please provide OpenAI Keys.",
     "unsupported prompt mode for GPT models",
     "Prompt template file missing or not found",
     "Please provide a method section in the template",
     "few_shot_examples_file must be provided when num_few_shot_examples > 0",
     "Few-shot examples file not found",
     "Invalid JSON format in few-shot examples file"}

InitCtor ==
    /\ MainIdle
    /\ backend = "any"
    /\ ot = Idle
    /\ srv = Idle
    /\ parse = Idle
    /\ cp = Idle
    /\ mp = Idle
    /\ \E keys \in KeysArgs, key_start_id \in KeyStartIds,
          prompt_mode \in PromptModes,
          prompt_template_path \in {"None", "custom_template.yaml"},
          template \in TemplateFiles,
          num_few_shot_examples \in 0..MaxFewShot,
          few_shot_file \in FewShotFiles :
         ctor = [pc |-> "keys",
                 keys_arg |-> keys,
                 key_start_id |-> key_start_id,
                 prompt_mode |-> prompt_mode,
                 prompt_template_path |-> prompt_template_path,
                 template |-> template,
                 num_few_shot_examples |-> num_few_shot_examples,
                 few_shot_file |-> few_shot_file,
                 keys |-> <<>>,             \* self._keys
                 handler |-> "",            \* self._inference_handler
                 examples |-> "unset",      \* self._examples
                 cur_key_id |-> 0,          \* self._cur_key_id
                 api_key |-> "",            \* the key of self.client
                 error |-> "",              \* the exception raised
                 used |-> <<>>,             \* the key of every backend contact
                 attempts |-> <<>>]         \* the attempts of every backend call

\* the constructor raises
CtorFail(msg) == [ctor EXCEPT !.pc = "failed", !.error = msg]

\* lines 62-65 of rank_openai.py
CtorKeys ==
    /\ ctor.pc = "keys"
    /\ LET keys == NormalizeKeys(ctor.keys_arg) IN
         ctor' = IF keys = <<>>
                 THEN CtorFail("Please provide OpenAI Keys.")
                 ELSE [ctor EXCEPT !.pc = "mode", !.keys = keys]
    /\ UNCHANGED <<main_vars, backend, ot, srv, parse, cp, mp>>

\* lines 67-88 of rank_openai.py
CtorMode ==
    /\ ctor.pc = "mode"
    /\ ctor' = IF ctor.prompt_mode # "None" /\ ctor.prompt_mode \notin GptModes
               THEN CtorFail("unsupported prompt mode for GPT models")
               ELSE [ctor EXCEPT
                       !.pc = "template",
                       !.prompt_template_path =
                           TemplatePath(ctor.prompt_template_path,
                                        ctor.prompt_mode)]
    /\ UNCHANGED <<main_vars, backend, ot, srv, parse, cp, mp>>

\* lines 51-63 of rankllm.py
CtorTemplate ==
    /\ ctor.pc = "template"
    /\ ctor' = IF ~ctor.template.exists
               THEN CtorFail("Prompt template file missing or not found")
               ELSE IF CreateHandler(ctor.template).raised
               THEN CtorFail(CreateHandler(ctor.template).error)
               ELSE [ctor EXCEPT
                       !.pc = "few_shot",
                       !.handler = CreateHandler(ctor.template).handler]
    /\ UNCHANGED <<main_vars, backend, ot, srv, parse, cp, mp>>

\* lines 65-72 of rankllm.py
CtorFewShot ==
    /\ ctor.pc = "few_shot"
    /\ ctor' = IF NeedsFewShot(ctor.num_few_shot_examples)
               THEN IF LoadFewShotExamples(ctor.few_shot_file) # ""
                    THEN CtorFail(LoadFewShotExamples(ctor.few_shot_file))
                    ELSE [ctor EXCEPT !.pc = "client", !.examples = "loaded"]
               ELSE [ctor EXCEPT !.pc = "client", !.examples = "empty"]
    /\ UNCHANGED <<main_vars, backend, ot, srv, parse, cp, mp>>

\* lines 99-128 of rank_openai.py
CtorClient ==
    /\ ctor.pc = "client"
    /\ LET cur == CursorOf(ctor.key_start_id, Len(ctor.keys))
           key == KeyAt(ctor.keys, cur)
       IN  ctor' = IF key = "IndexError"
                   THEN [ctor EXCEPT !.pc = "failed", !.error = "IndexError",
                                     !.cur_key_id = cur]
                   ELSE [ctor EXCEPT !.pc = "constructed",
                                     !.cur_key_id = cur,
                                     !.api_key = key]
    /\ UNCHANGED <<main_vars, backend, ot, srv, parse, cp, mp>>

\* a variant that takes the next key of the pool at every contact
KeyOfContactRotating(c) ==
    c.keys[((c.cur_key_id + Len(c.used)) % Len(c.keys)) + 1]

\* the key a contact of the backend is made with: the one self.client was
\* created with
KeyOfContact(c) == c.api_key

\* the first attempt of a backend call through self.client (lines 179, 183)
ClientCall ==
    /\ ctor.pc = "constructed"
    /\ Len(ctor.attempts) < MaxCalls
    /\ ctor' = [ctor EXCEPT !.used = Append(ctor.used, KeyOfContact(ctor)),
                            !.attempts = Append(ctor.attempts, 1)]
    /\ UNCHANGED <<main_vars, backend, ot, srv, parse, cp, mp>>

\* a further attempt of the same call, after a caught exception (line 175)
ClientRetry ==
    /\ ctor.pc = "constructed"
    /\ ctor.attempts # <<>>
    /\ LoopContinues(ctor.attempts[Len(ctor.attempts)])
    /\ ctor' = [ctor EXCEPT
                  !.used = Append(ctor.used, KeyOfContact(ctor)),
                  !.attempts[Len(ctor.attempts)] =
                      ctor.attempts[Len(ctor.attempts)] + 1]
    /\ UNCHANGED <<main_vars, backend, ot, srv, parse, cp, mp>>

NextCtor ==
    \/ CtorKeys
    \/ CtorMode
    \/ CtorTemplate
    \/ CtorFewShot
    \/ CtorClient
    \/ ClientCall
    \/ ClientRetry

SpecCtor == InitCtor /\ [][NextCtor]_vars

\* the template exists and its method is missing or not a recognized one
BadMethod == ctor.template.exists /\ ctor.template.method \notin RecognizedMethods

\* C16: a template whose method is missing or unrecognized makes construction
\* fail with a configuration error: construction never gets past the
\* template, no instance exists afterwards and no backend call is made.
C16_BadMethodFailsConstruction ==
    (ctor.pc # "idle" /\ BadMethod) =>
        /\ ctor.pc \in {"keys", "mode", "template", "failed"}
        /\ ctor.handler = ""
        /\ ctor.used = <<>>
        /\ ctor.pc = "failed" => ctor.error \in ConfigurationErrors

\* C16 witness: construction failed on a template with an unrecognized method.
C16_Witness ==
    /\ ctor.pc = "failed"
    /\ ctor.template.exists
    /\ ctor.template.method = "listwise_v2"
    /\ ctor.keys # <<>>
    /\ ctor.error = "Please provide a method section in the template"

\* the few-shot examples file is missing or is not JSON
BadFewShotFile == ctor.pc # "idle" /\ ctor.few_shot_file \in {"missing", "malformed"}

\* C17 as claimed: a missing or malformed few-shot file makes construction
\* fail for every value of num_few_shot_examples.
C17_BadFewShotFileFails ==
    BadFewShotFile => ctor.pc # "constructed"

\* C17: a missing or malformed few-shot file makes construction fail with a
\* configuration error for every num_few_shot_examples > 0.
C17_BadFewShotFileFailsWhenExamplesAsked ==
    (BadFewShotFile /\ ctor.num_few_shot_examples > 0) =>
        /\ ctor.pc \notin {"client", "constructed"}
        /\ ctor.examples = "unset"
        /\ ctor.pc = "failed" => ctor.error \in ConfigurationErrors

\* C17 witness: construction failed on a few-shot file that is not JSON.
C17_Witness ==
    /\ ctor.pc = "failed"
    /\ ctor.few_shot_file = "malformed"
    /\ ctor.num_few_shot_examples = 1
    /\ ctor.handler # ""
    /\ ctor.error = "Invalid JSON format in few-shot examples file"

\* C18: for every non-empty key pool and every key_start_id, construction
\* does not fail on the cursor, the cursor of the instance is in
\* 0..len(keys)-1 at construction and after every call, and every call uses
\* a key of the pool.
C18_CursorInRange ==
    /\ ctor.pc = "constructed" =>
          /\ ctor.cur_key_id \in 0..(Len(ctor.keys) - 1)
          /\ ctor.api_key = ctor.keys[ctor.cur_key_id + 1]
          /\ \A k \in 1..Len(ctor.used) : ctor.used[k] \in Range(ctor.keys)
    /\ ctor.pc = "failed" => ctor.error # "IndexError"

\* C18 witness: an instance built with a negative key_start_id has made its
\* calls with a key of its pool of two.
C18_Witness ==
    /\ ctor.pc = "constructed"
    /\ Len(ctor.keys) = 2
    /\ ctor.key_start_id.given
    /\ ctor.key_start_id.val = -3
    /\ ctor.cur_key_id = 1
    /\ Len(ctor.used) = MaxCalls

(***************************************************************************)
(* The Multi-Pass Controller (section 4.5): one top-level reranking call   *)
(* of num_passes sweeps over one Request.  A sweep is taken as a whole: it *)
(* leaves any order of the candidates of the range, or fails.              *)
(***************************************************************************)
MaxPasses == 3      \* num_passes

\* the candidates of the Request, in retrieved order
PassCandidates == <<"a", "b", "c">>

\* the orders of seq that differ from it only inside [from, to)
Reorderings(seq, from, to) ==
    {r \in [1..Len(seq) -> Range(seq)] :
        /\ \A c \in Range(seq) :
              Cardinality({k \in 1..Len(seq) : r[k] = c})
                  = Cardinality({k \in 1..Len(seq) : seq[k] = c})
        /\ \A k \in 1..Len(seq) : (k <= from \/ k > to) => r[k] = seq[k]}

DefaultNumPasses == 1

\* the num_passes request argument: absent, or an integer
NumPassesArgs ==
    {[given |-> FALSE, val |-> 0]}
    \cup {[given |-> TRUE, val |-> v] : v \in 0..MaxPasses}

\* request.args.get("num_passes", default=1, type=int)
NumPassesOf(arg) == IF arg.given THEN arg.val ELSE DefaultNumPasses

\* a variant that stops one sweep early
MorePassesOneLess(done, num_passes) == done + 1 < num_passes

\* another sweep is due
MorePasses(done, num_passes) == done < num_passes

InitPasses ==
    /\ MainIdle
    /\ backend = "any"
    /\ ot = Idle
    /\ srv = Idle
    /\ parse = Idle
    /\ cp = Idle
    /\ ctor = Idle
    /\ \E arg \in NumPassesArgs, shuffle_candidates \in BOOLEAN,
          from \in 0..1 :
         mp = [pc |-> "start",
               num_passes |-> NumPassesOf(arg),
               shuffle_candidates |-> shuffle_candidates,
               rank_start |-> from,
               rank_end |-> Len(PassCandidates),
               retrieved |-> PassCandidates,
               ranking |-> PassCandidates,
               pass_ct |-> 0,
               log |-> <<>>]     \* the shuffles and sweeps, in order

\* before the first pass: shuffle if asked
PassesShuffle ==
    /\ mp.pc = "start"
    /\ IF mp.shuffle_candidates
       THEN \E r \in Reorderings(mp.ranking, 0, Len(mp.ranking)) :
              mp' = [mp EXCEPT
                       !.pc = "pass",
                       !.ranking = r,
                       !.log = Append(mp.log,
                                      [op |-> "shuffle", input |-> mp.ranking,
                                       output |-> r, from |-> 0,
                                       to |-> Len(mp.ranking)])]
       ELSE mp' = [mp EXCEPT !.pc = "pass"]
    /\ UNCHANGED <<main_vars, backend, ot, srv, parse, cp, ctor>>

\* one full sweep; its output ranking is the next pass's input ranking
PassesSweep ==
    /\ mp.pc = "pass"
    /\ MorePasses(mp.pass_ct, mp.num_passes)
    /\ \E r \in Reorderings(mp.ranking, mp.rank_start, mp.rank_end) :
         mp' = [mp EXCEPT
                  !.ranking = r,
                  !.pass_ct = mp.pass_ct + 1,
                  !.log = Append(mp.log,
                                 [op |-> "sweep", input |-> mp.ranking,
                                  output |-> r, from |-> mp.rank_start,
                                  to |-> mp.rank_end])]
    /\ UNCHANGED <<main_vars, backend, ot, srv, parse, cp, ctor>>

\* a failed step is fatal: the sweep is aborted and the call fails
PassesSweepFails ==
    /\ mp.pc = "pass"
    /\ MorePasses(mp.pass_ct, mp.num_passes)
    /\ mp' = [mp EXCEPT !.pc = "failed"]
    /\ UNCHANGED <<main_vars, backend, ot, srv, parse, cp, ctor>>

\* all passes are done: the final ranking is returned
PassesReturn ==
    /\ mp.pc = "pass"
    /\ ~MorePasses(mp.pass_ct, mp.num_passes)
    /\ mp' = [mp EXCEPT !.pc = "returned"]
    /\ UNCHANGED <<main_vars, backend, ot, srv, parse, cp, ctor>>

NextPasses ==
    \/ PassesShuffle
    \/ PassesSweep
    \/ PassesSweepFails
    \/ PassesReturn

SpecPasses == InitPasses /\ [][NextPasses]_vars

\* the sweeps of the call so far, in order
SweepsOf(log) == SelectSeq(log, LAMBDA e : e.op = "sweep")

\* C19: a call with num_passes = k that returns has run exactly k sweeps,
\* each over the same [rank_start, rank_end); the first starts from the
\* ranking handed in (shuffled if asked), every later one from the ranking
\* the sweep before it produced, unchanged or not; a shuffle happens at most
\* once and only before the first sweep.
C19_ExactlyKSweeps ==
    mp.pc # "idle" =>
        LET sweeps == SweepsOf(mp.log) IN
        /\ Len(sweeps) <= mp.num_passes
        /\ mp.pc = "returned" => Len(sweeps) = mp.num_passes
        /\ \A k \in 1..Len(sweeps) :
              /\ sweeps[k].from = mp.rank_start
              /\ sweeps[k].to = mp.rank_end
        /\ \A k \in 1..(Len(sweeps) - 1) : sweeps[k + 1].input = sweeps[k].output
        /\ \A k \in 2..Len(mp.log) : mp.log[k].op = "sweep"
        /\ (mp.log # <<>> /\ mp.log[1].op = "shuffle") =>
              /\ mp.shuffle_candidates
              /\ mp.log[1].input = mp.retrieved
              /\ Len(mp.log) > 1 => mp.log[2].input = mp.log[1].output
        /\ (mp.log # <<>> /\ mp.log[1].op = "sweep") =>
              /\ ~mp.shuffle_candidates
              /\ mp.log[1].input = mp.retrieved
        /\ mp.pc = "returned" =>
              mp.ranking = IF mp.log = <<>> THEN mp.retrieved
                           ELSE mp.log[Len(mp.log)].output

\* C19 witness: a call with num_passes = 3 and a shuffle has returned after
\* three sweeps, the second of which left the ranking as it was.
C19_Witness ==
    /\ mp.pc = "returned"
    /\ mp.num_passes = 3
    /\ Len(mp.log) = 4
    /\ mp.log[1].op = "shuffle"
    /\ mp.log[1].output # mp.log[1].input
    /\ mp.log[3].output = mp.log[3].input
    /\ mp.log[4].op = "sweep"
    /\ mp.log[4].output # mp.log[4].input

(***************************************************************************)
(* rerank_batch on one Request with the default window_size and stride,    *)
(* against a backend that returns every window in reverse order.           *)
(***************************************************************************)
MaxReverseCands == 22     \* candidates of the Request

InitReverse ==
    /\ \E n \in 1..MaxReverseCands : requests = <<RequestOf(n)>>
    /\ rank_start = 0
    /\ rank_end = DefaultRankEnd
    /\ top_k_retrieve = NoArg
    /\ window_size = DefaultWindowSize
    /\ stride = DefaultStride
    /\ req_idx = 1
    /\ results = <<>>
    /\ sw = [rank_start |-> 0, rank_end |-> 0, window_size |-> 0, stride |-> 0]
    /\ candidates = <<>>
    /\ start_pos = 0
    /\ end_pos = 0
    /\ windows = <<>>
    /\ CallIdle
    /\ pc = "batch_loop"
    /\ backend = "reverse"
    /\ ot = Idle
    /\ srv = Idle
    /\ parse = Idle
    /\ cp = Idle
    /\ ctor = Idle
    /\ mp = Idle

SpecReverse == InitReverse /\ [][Next]_vars

\* seq back to front
Reverse(seq) == [k \in 1..Len(seq) |-> seq[Len(seq) + 1 - k]]

\* C20: for a Request of exactly window_size = 20 candidates, stride 10 and a
\* backend that reverses every window, the Result is the input reversed: the
\* one window over the full range is applied once and no other window is.
C20_FullWindowReversedOnce ==
    (pc = "batch_done" /\ Len(requests[1]) = DefaultWindowSize) =>
        /\ Len(results) = 1
        /\ results[1].candidates = Reverse(requests[1])
        /\ windows = <<<<0, DefaultWindowSize>>>>
        /\ sw.window_size = DefaultWindowSize
        /\ sw.stride = DefaultStride

\* C20 witness: the Request of 20 candidates has come back reversed.
C20_Witness ==
    /\ pc = "batch_done"
    /\ Len(requests[1]) = 20
    /\ results[1].candidates[1] = 20
    /\ results[1].candidates[20] = 1
    /\ Len(contacts) = 1
    /\ contacts[1].timeout = ChatTimeout

\* the keys argument holds no key: None, an empty list or an empty string
NoKeysGiven ==
    \/ ctor.keys_arg.kind = "none"
    \/ ctor.keys_arg.kind = "list" /\ ctor.keys_arg.val = <<>>
    \/ ctor.keys_arg.kind = "str" /\ ctor.keys_arg.val = ""

\* a prompt mode is given and is not one of the three for GPT models
UnsupportedMode == ctor.prompt_mode \notin (GptModes \cup {"None"})

\* C21: with no keys or with an unsupported prompt mode the constructor
\* raises ValueError before any template is loaded and before any client is
\* created.
C21_NoKeysOrBadModeRaisesFirst ==
    (ctor.pc # "idle" /\ (NoKeysGiven \/ UnsupportedMode)) =>
        /\ ctor.pc \in {"keys", "mode", "failed"}
        /\ ctor.handler = ""
        /\ ctor.used = <<>>
        /\ ctor.pc = "failed" =>
              ctor.error \in {"Please provide OpenAI Keys.",
                              "unsupported prompt mode for GPT models"}

C22_WindowStepFrame ==
    [][pc = "llm_returned" =>
          /\ Len(candidates') = Len(candidates)
          /\ \A k \in 1..Len(candidates) :
                (k <= start_pos \/ k > end_pos) => candidates'[k] = candidates[k]
          /\ \A k \in 1..Len(candidates) :
                (k <= sw.rank_start \/ k > sw.rank_end) =>
                    candidates'[k] = candidates[k]]_vars

\* C22 witness: a window step over [1, 3) of three candidates has swapped the
\* two candidates of the window and left the first one in place.
C22_Witness ==
    /\ pc \in {"window", "batch_loop"}
    /\ windows = <<<<1, 3>>>>
    /\ sw.rank_start = 1
    /\ Len(contacts) >= 1
    /\ candidates = <<1, 3, 2>>

(***************************************************************************)
(* rerank_batch on one Request, called with any rank_start, rank_end and   *)
(* top_k_retrieve, also negative ones and ones beyond the candidates.      *)
(***************************************************************************)
MaxRangeCands == 2      \* candidates of the Request
MaxRangeArg   == 3      \* rank_start, rank_end and top_k_retrieve

InitRange ==
    /\ \E n \in 0..MaxRangeCands : requests = <<RequestOf(n)>>
    /\ rank_start \in (-1)..MaxRangeArg
    /\ rank_end \in (-1)..MaxRangeArg
    /\ top_k_retrieve \in {NoArg} \cup 0..MaxRangeArg
    /\ window_size \in 1..2
    /\ stride \in 1..2
    /\ req_idx = 1
    /\ results = <<>>
    /\ sw = [rank_start |-> 0, rank_end |-> 0, window_size |-> 0, stride |-> 0]
    /\ candidates = <<>>
    /\ start_pos = 0
    /\ end_pos = 0
    /\ windows = <<>>
    /\ CallIdle
    /\ pc = "batch_loop"
    /\ AuxIdle

SpecRange == InitRange /\ [][Next]_vars

\* the sweep of the Request has been started
SweepStarted == InSweep \/ pc = "raised" \/ results # <<>>

\* C24 as claimed: whatever rank_start, rank_end and top_k_retrieve are, the
\* range handed to the sweep satisfies 0 <= rank_start <= rank_end <= number
\* of candidates of the Request.
C24_RangeWellFormed ==
    SweepStarted =>
        /\ 0 <= sw.rank_start
        /\ sw.rank_start <= sw.rank_end
        /\ sw.rank_end <= Len(requests[1])

\* C24: the range handed to the sweep satisfies 0 <= rank_start and
\* rank_end <= number of candidates of the Request; rank_start <= rank_end
\* holds as well when the rank_start given is at most the rank_end given,
\* top_k_retrieve and the number of candidates, and rank_end and
\* top_k_retrieve are not negative.
C24_RangeWellFormedForOrderedArgs ==
    SweepStarted =>
        /\ 0 <= sw.rank_start
        /\ sw.rank_end <= Len(requests[1])
        /\ (/\ rank_start <= rank_end
            /\ rank_start <= TopK
            /\ rank_start <= Len(requests[1])
            /\ 0 <= rank_end
            /\ 0 <= TopK) => sw.rank_start <= sw.rank_end

\* C24 witness: a sweep started for a Request of two candidates with a
\* negative rank_start and a rank_end beyond the candidates.
C24_Witness ==
    /\ SweepStarted
    /\ Len(requests[1]) = 2
    /\ rank_start = -1
    /\ rank_end = 3
    /\ top_k_retrieve = NoArg
    /\ sw.rank_start = 0
    /\ sw.rank_end = 2
    /\ pc = "batch_done"

\* C25: for every window of 1 up to the window_size given to rerank_batch
\* candidates, also one longer than the window_size of the instance, the
\* initial per-candidate budget, the one of the first rendering, is positive.
C25_InitialBudgetPositive ==
    (cp.pc # "idle" /\ Len(cp.rendered) >= 1) => cp.rendered[1] > 0

\* C26: in the shrink loop the per-candidate budget strictly decreases from
\* one rendering to the next, and no rendering is made for a budget of zero
\* or less.  Stated for the calls whose first budget is positive.
C26_BudgetDecreasesAboveFloor ==
    (cp.pc # "idle" /\ Len(cp.rendered) >= 1 /\ cp.rendered[1] > 0) =>
        /\ \A k \in 1..(Len(cp.rendered) - 1) :
              cp.rendered[k + 1] < cp.rendered[k]
        /\ \A k \in 1..Len(cp.rendered) : cp.rendered[k] > 0

(***************************************************************************)
(* num_output_tokens on one instance: a history of calls with and without  *)
(* a window size, and the cached estimate self._output_token_estimate.     *)
(***************************************************************************)
MaxEstWindow == 3     \* window sizes
MaxEstCalls  == 3     \* calls followed

\* self._output_token_estimate is None
NoEstimate == [is_none |-> TRUE, val |-> 0]

\* lines 231-232
CurrentWindowSize(arg, ws) == IF arg = NoArg THEN ws ELSE arg

\* line 233: the cached estimate is set and not zero, and is for this size
ReturnsEstimate(cache, ws, cur) ==
    /\ ~cache.is_none
    /\ cache.val # 0
    /\ ws = cur

\* a variant that caches the estimate of any window size
StoresEstimateOfAnySize(cache, ws, cur) == cache.is_none

\* lines 249-252: the estimate is cached if none is yet and it is for the
\* window size of the instance
StoresEstimate(cache, ws, cur) == cache.is_none /\ ws = cur

InitTokens ==
    /\ MainIdle
    /\ backend = "any"
    /\ parse = Idle
    /\ cp = Idle
    /\ ctor = Idle
    /\ mp = Idle
    /\ srv = Idle
    /\ \E ws \in 0..MaxEstWindow :
         ot = [pc |-> "ready",
               window_size |-> ws,                  \* self._window_size
               output_token_estimate |-> NoEstimate,
               calls |-> <<>>]

\* one call of num_output_tokens
NumOutputTokensCall ==
    /\ ot.pc = "ready"
    /\ Len(ot.calls) < MaxEstCalls
    /\ \E arg \in {NoArg} \cup 0..MaxEstWindow :
         LET cache == ot.output_token_estimate
             cur   == CurrentWindowSize(arg, ot.window_size)
             hit   == ReturnsEstimate(cache, ot.window_size, cur)
             est   == NumOutputTokens(cur)
             after == IF ~hit /\ StoresEstimate(cache, ot.window_size, cur)
                      THEN [is_none |-> FALSE, val |-> est]
                      ELSE cache
         IN  ot' = [ot EXCEPT
                      !.output_token_estimate = after,
                      !.calls = Append(ot.calls,
                                       [arg |-> arg, current |-> cur,
                                        cached |-> hit,
                                        returned |-> IF hit THEN cache.val
                                                     ELSE est,
                                        before |-> cache, after |-> after])]
    /\ UNCHANGED <<main_vars, backend, srv, parse, cp, ctor, mp>>

NextTokens == NumOutputTokensCall

SpecTokens == InitTokens /\ [][NextTokens]_vars

\* C27: every call returns the estimate for the window size it is about,
\* whatever calls came before; the cached estimate, once set, is the estimate
\* for the window size of the instance, is not overwritten, and is returned
\* only for that window size.
C27_EstimateForAskedWindow ==
    ot.pc # "idle" =>
        /\ \A k \in 1..Len(ot.calls) :
              LET c == ot.calls[k] IN
              /\ c.current = (IF c.arg = NoArg THEN ot.window_size ELSE c.arg)
              /\ c.returned = NumOutputTokens(c.current)
              /\ ~c.before.is_none => c.after = c.before
              /\ ~c.after.is_none =>
                    c.after.val = NumOutputTokens(ot.window_size)
              /\ c.cached => c.current = ot.window_size
              /\ k > 1 => c.before = ot.calls[k - 1].after
        /\ ~ot.output_token_estimate.is_none =>
              ot.output_token_estimate.val = NumOutputTokens(ot.window_size)

\* C27 witness: a call for another window size, then a call that caches the
\* estimate of the instance's window size, then a call answered from the
\* cache.
C27_Witness ==
    /\ ot.pc = "ready"
    /\ ot.window_size = 2
    /\ Len(ot.calls) = 3
    /\ ot.calls[1].arg = 3
    /\ ot.calls[1].after.is_none
    /\ ot.calls[2].arg = NoArg
    /\ ~ot.calls[2].cached
    /\ ~ot.calls[2].after.is_none
    /\ ot.calls[3].cached
    /\ ot.calls[3].returned = 2

(***************************************************************************)
(* The server (create_app.search): a sequence of search requests against   *)
(* the model coordinator held in default_model_coordinator.  A string that *)
(* is searched or lowercased is a sequence of characters.                  *)
(***************************************************************************)
MaxRequests == 3      \* search requests followed

ModelNames == {"rank_zephyr", "gpt-4"}

\* a model coordinator; get_name() is its name
NoCoordinator == [name |-> "", id |-> 0]

BM25 == <<"b", "m", "2", "5">>

\* the retrieval_method argument: absent, or some text
RetrievalMethodArgs ==
    {[given |-> FALSE, val |-> <<>>],
     [given |-> TRUE, val |-> BM25],
     [given |-> TRUE, val |-> <<"B", "M", "2", "5">>],
     [given |-> TRUE, val |-> <<"d", "e", "n", "s", "e">>]}

\* request.args.get("retrieval_method", default="bm25", type=str)
RetrievalMethodOf(arg) == IF arg.given THEN arg.val ELSE BM25

\* str.lower()
Lower(text) ==
    [k \in 1..Len(text) |->
        IF text[k] = "B" THEN "b"
        ELSE IF text[k] = "M" THEN "m"
        ELSE text[k]]

\* sub in text
Contains(text, sub) ==
    \E k \in 0..(Len(text) - Len(sub)) : SubSeq(text, k + 1, k + Len(sub)) = sub

\* a variant that lets every retrieval method through
IsBm25Always(method) == TRUE

\* "bm25" in retrieval_method.lower()
IsBm25(method) == Contains(Lower(method), BM25)

\* a variant that keeps the held coordinator whatever model is named
DiscardsNever(held, model_path) == FALSE

\* lines 125-128: a coordinator is held and is not of the model named
Discards(held, model_path) ==
    held # NoCoordinator /\ model_path # held.name

\* what retrieve_and_rerank may do when handed a coordinator: raise, or
\* return a response (empty or not) with the coordinator it used, which is
\* the one handed or one it has created under any name
RerankOutcomes(handed, new_id) ==
    {[raised |-> TRUE, error |-> "retriever unreachable", empty |-> FALSE,
      coordinator |-> NoCoordinator]}
    \cup {[raised |-> FALSE, error |-> "", empty |-> e, coordinator |-> c] :
             e \in BOOLEAN,
             c \in ({handed} \ {NoCoordinator})
                   \cup {[name |-> m, id |-> new_id] : m \in ModelNames}}

\* create_app: the server starts holding the coordinator of its model
InitServer ==
    /\ MainIdle
    /\ backend = "any"
    /\ parse = Idle
    /\ cp = Idle
    /\ ctor = Idle
    /\ mp = Idle
    /\ ot = Idle
    /\ \E m \in ModelNames :
         srv = [pc |-> "serving",
                default_model_coordinator |-> [name |-> m, id |-> 1],
                log |-> <<>>]       \* the requests answered, in order

\* the entry of the log for a request
Answer(model_path, method, held, invoked, handed, o, after, status, error) ==
    [model_path |-> model_path, retrieval_method |-> method,
     held_before |-> held, invoked |-> invoked, handed |-> handed,
     outcome |-> o, held_after |-> after, status |-> status, error |-> error]

\* one search request, from its arguments to its answer
Search ==
    /\ srv.pc = "serving"
    /\ Len(srv.log) < MaxRequests
    /\ \E model_path \in ModelNames, arg \in RetrievalMethodArgs :
         LET method == RetrievalMethodOf(arg)
             held   == srv.default_model_coordinator
             handed == IF Discards(held, model_path) THEN NoCoordinator
                       ELSE held
             new_id == Len(srv.log) + 2
         IN  IF ~IsBm25(method)
             THEN srv' = [srv EXCEPT
                            !.log = Append(srv.log,
                                Answer(model_path, method, held, FALSE,
                                       NoCoordinator,
                                       [raised |-> FALSE, error |-> "",
                                        empty |-> FALSE,
                                        coordinator |-> NoCoordinator],
                                       held, 500,
                                       "Retrieval method must be BM25"))]
             ELSE \E o \in RerankOutcomes(handed, new_id) :
                    LET after == IF o.raised THEN handed ELSE o.coordinator
                        status == IF o.raised \/ o.empty THEN 500 ELSE 200
                        error == IF o.raised THEN o.error
                                 ELSE IF o.empty THEN "list index out of range"
                                 ELSE ""
                    IN  srv' = [srv EXCEPT
                                  !.default_model_coordinator = after,
                                  !.log = Append(srv.log,
                                      Answer(model_path, method, held, TRUE,
                                             handed, o, after, status,
                                             error))]
    /\ UNCHANGED <<main_vars, backend, ot, parse, cp, ctor, mp>>

NextServer == Search

SpecServer == InitServer /\ [][NextServer]_vars

\* C28: the coordinator handed to retrieve_and_rerank for a request naming
\* model M is none or one whose name is M: a held coordinator of another
\* model is discarded first; after a request answered with 200 the held
\* coordinator is the one that request returned.
C28_HandedCoordinatorIsOfModel ==
    srv.pc # "idle" =>
        /\ \A k \in 1..Len(srv.log) :
              LET a == srv.log[k] IN
              /\ a.invoked =>
                    /\ a.handed = NoCoordinator \/ a.handed.name = a.model_path
                    /\ a.handed \in {NoCoordinator, a.held_before}
                    /\ a.held_before.name = a.model_path =>
                          a.handed = a.held_before
              /\ a.status = 200 =>
                    /\ a.invoked
                    /\ a.held_after = a.outcome.coordinator
                    /\ a.held_after # NoCoordinator
              /\ k > 1 => a.held_before = srv.log[k - 1].held_after
        /\ srv.log # <<>> =>
              srv.default_model_coordinator = srv.log[Len(srv.log)].held_after

\* C28 witness: a request for another model than the one held was handed no
\* coordinator and failed; the next request, for the first model again, was
\* handed none either and its new coordinator is held.
C28_Witness ==
    /\ srv.pc = "serving"
    /\ Len(srv.log) = 2
    /\ srv.log[1].held_before.name = "rank_zephyr"
    /\ srv.log[1].model_path = "gpt-4"
    /\ srv.log[1].invoked
    /\ srv.log[1].handed = NoCoordinator
    /\ srv.log[1].status = 500
    /\ srv.log[2].model_path = "rank_zephyr"
    /\ srv.log[2].handed = NoCoordinator
    /\ srv.log[2].status = 200
    /\ srv.default_model_coordinator = [name |-> "rank_zephyr", id |-> 3]

\* the text holds the letters b, m, 2, 5 in a row, in either case
NamesBm25(text) ==
    \E k \in 1..(Len(text) - 3) :
        /\ text[k] \in {"b", "B"}
        /\ text[k + 1] \in {"m", "M"}
        /\ text[k + 2] = "2"
        /\ text[k + 3] = "5"

\* C29: a request whose retrieval_method does not name bm25 (in either case)
\* is answered with status 500 without retrieval or reranking and with the
\* held coordinator unchanged; a request during whose retrieval and
\* reranking an exception was raised is answered with status 500 and the
\* exception's message, never with 200.
C29_ErrorsAnsweredWith500 ==
    srv.pc # "idle" =>
        \A k \in 1..Len(srv.log) :
            LET a == srv.log[k] IN
            /\ ~NamesBm25(a.retrieval_method) =>
                  /\ a.status = 500
                  /\ ~a.invoked
                  /\ a.held_after = a.held_before
                  /\ a.error = "Retrieval method must be BM25"
            /\ NamesBm25(a.retrieval_method) => a.invoked
            /\ (a.invoked /\ a.outcome.raised) =>
                  /\ a.status = 500
                  /\ a.error = a.outcome.error
            /\ a.status = 200 =>
                  /\ a.invoked
                  /\ ~a.outcome.raised
                  /\ a.error = ""

\* C29 witness: a request with retrieval_method "dense" was refused, one with
\* "BM25" was let through and answered 200, and one raised during reranking.
C29_Witness ==
    /\ srv.pc = "serving"
    /\ Len(srv.log) = 3
    /\ srv.log[1].retrieval_method = <<"d", "e", "n", "s", "e">>
    /\ srv.log[1].status = 500
    /\ ~srv.log[1].invoked
    /\ srv.log[2].retrieval_method = <<"B", "M", "2", "5">>
    /\ srv.log[2].status = 200
    /\ srv.log[3].outcome.raised
    /\ srv.log[3].status = 500
    /\ srv.log[3].error = "retriever unreachable"

====
